---- MODULE Spec2Model ----
(***************************************************************************)
(* TempCredentialsProvider of vault/tempcreds.go: the four-path Retrieve   *)
(* (master only, role from master, session only, session then role), the   *)
(* cache-or-create session acquisition and ForceRefresh.                   *)
(*                                                                         *)
(* Retrieve is modelled step by step: one action per call the provider     *)
(* makes to a collaborator (master credentials, MFA prompt, session cache, *)
(* STS GetSessionToken, STS AssumeRole), whose outcome is chosen by the    *)
(* environment.  `call` records what the running Retrieve has done so far, *)
(* `prev` what the Retrieve before it did.                                 *)
(***************************************************************************)
EXTENDS Integers, Sequences, FiniteSets, TLC

VARIABLES
    config,               \* p.config: read-only after construction
    forceSessionRefresh,  \* p.forceSessionRefresh
    masterExpired,        \* p.masterCreds has been Expire()d and not re-read
    expiration,           \* p.Expiry: the tracked expiration (0 = zero time)
    sessions,             \* p.sessions: cache  key -> token (NoCred = no entry)
    pc,                   \* position of the running Retrieve ("idle" = none)
    session,              \* local `session` of getSessionToken and its callers
    err,                  \* local `err` ("" = nil)
    viaForce,             \* createSessionToken was called from line 187
    tokenCode,            \* params.TokenCode / input.TokenCode ("" = unset)
    issued,               \* number of credentials STS has issued so far
    call,                 \* observations of the running / last Retrieve
    prev,                 \* observations of the Retrieve before it
    forcedSince,          \* ForceRefresh was called since the last Retrieve began
    hist                  \* history: a forced refresh is owed, ids AssumeRole issued

vars == <<config, forceSessionRefresh, masterExpired, expiration, sessions, pc,
          session, err, viaForce, tokenCode, issued, call, prev, forcedSince,
          hist>>

----------------------------------------------------------------------------
(* Bounds and constants *)

\* STS issues at most this many credentials in one behaviour
MaxIssued == 4

\* DefaultExpirationWindow = 5 * time.Minute, in minutes
DefaultExpirationWindow == 5

\* expirations (minutes) STS may report for a credential it issues
Expirations == {10, 20}

\* the instants (minutes) at which expiry is asked about
Times == 0 .. 25

Accounts == {"prod"}
MfaSerials == {"", "mfa"}
Keys == Accounts \X MfaSerials

\* the nil *sts.Credentials / the empty credentials.Value
NoCred == [id |-> 0, exp |-> 0]
\* AccessKeyID of the value p.masterCreds.Get() returns
MasterId == 1
\* expirations of the cache entries present at start: 3 is inside the safety window
CachedExpirations == {3, 10}
\* the tokens a cache entry present at start may hold for a key
CachedAtStart(k) == {[id |-> (IF k[2] = "" THEN 2 ELSE 3), exp |-> e] : e \in CachedExpirations}
\* the n-th credential STS issues (ids 1..3 are the master's and the cached ones)
FreshId(n) == 4 + n
PromptedCode == "654321"

Configs ==
    [CredentialsName : Accounts,
     NoSession : BOOLEAN,
     RoleARN : {"", "role"},
     MfaSerial : MfaSerials,
     MfaToken : {"", "123456"}]

----------------------------------------------------------------------------
(* The observations of one Retrieve *)

NoCall ==
    [path |-> "none", forcedBefore |-> FALSE, force0 |-> FALSE,
     sessions0 |-> [k \in Keys |-> NoCred], expiration0 |-> 0,
     log |-> <<>>, fresh |-> NoCred, base |-> 0, serial |-> "", code |-> "",
     aSerial |-> "", aCode |-> "", pending0 |-> FALSE,
     value |-> 0, reterr |-> "", cred |-> NoCred]

Ev(op, res) == [op |-> op, res |-> res]

\* positions in log of the events of operation op
At(log, op) == {i \in DOMAIN log : log[i].op = op}
Count(log, op) == Cardinality(At(log, op))
Has(log, op, res) == \E i \in DOMAIN log : log[i] = Ev(op, res)

----------------------------------------------------------------------------
(* Pure helpers of the provider *)

\* Path without the NoSession test of line 68: a role is always assumed from a session
PathRoleViaSession(noSession, roleARN) ==
    IF noSession /\ roleARN = "" THEN "MasterOnly"
    ELSE IF roleARN = "" THEN "SessionOnly"
    ELSE "SessionThenRole"

\* Path with the NoSession test of line 68 before the MasterOnly test of line 64
PathNoMasterOnly(noSession, roleARN) ==
    IF noSession THEN "RoleFromMaster"
    ELSE IF roleARN = "" THEN "SessionOnly"
    ELSE "SessionThenRole"

\* Retrieve, lines 63-76: the path is chosen from NoSession and RoleARN
Path(noSession, roleARN) ==
    IF noSession /\ roleARN = "" THEN "MasterOnly"
    ELSE IF noSession THEN "RoleFromMaster"
    ELSE IF roleARN = "" THEN "SessionOnly"
    ELSE "SessionThenRole"

\* the first step of each path
Entry(path) ==
    CASE path = "MasterOnly" -> "master_get"
      [] path = "RoleFromMaster" -> "role_get"
      [] path = "SessionOnly" -> "sess_get"
      [] path = "SessionThenRole" -> "sess_get"

\* the cache key of lines 190 and 198
SessionKey(cfg) == <<cfg.CredentialsName, cfg.MfaSerial>>

\* NeedsPrompt without the MfaToken test of lines 164 and 260
NeedsPromptIgnoresToken(cfg) == cfg.MfaSerial # ""

\* NeedsPrompt with the MfaToken test of lines 164 and 260 inverted
NeedsPromptInverted(cfg) == cfg.MfaSerial # "" /\ cfg.MfaToken # ""

\* lines 162-173 and 258-269: the prompt is called only for a device without a literal code
NeedsPrompt(cfg) == cfg.MfaSerial # "" /\ cfg.MfaToken = ""

\* credentials.Expiry.SetExpiration(expiration, window)
SetExpiration(exp, window) == exp - window

\* TrackExpiration that passes no safety window
TrackExpirationNoWindow(cred) == SetExpiration(cred.exp, 0)

\* lines 86, 111 and 145: p.SetExpiration(*cred.Expiration, DefaultExpirationWindow)
TrackExpiration(cred) == SetExpiration(cred.exp, DefaultExpirationWindow)

\* ExpirationAfterSession that tracks the session's expiration on both session paths
ExpirationAfterSessionAlways(path, sess, old) == TrackExpiration(sess)

\* the tracked expiration once getSessionToken returned sess without error:
\* getCredsWithSession sets it (line 86), getCredsWithSessionAndRole goes on to
\* assumeRoleFromSession (line 106) and leaves it
ExpirationAfterSession(path, sess, old) ==
    IF path = "SessionOnly" THEN TrackExpiration(sess) ELSE old

\* assumeRoleFromSession with the MFA block of assumeRoleFromCreds (lines 258-269)
SessionAssumeMfaAsFromCreds(cfg, code) == [serial |-> cfg.MfaSerial, code |-> code]

\* assumeRoleFromSession, lines 220-228: the input carries no SerialNumber and no TokenCode
SessionAssumeMfa(cfg, code) == [serial |-> "", code |-> ""]

\* AfterLookup that returns to the caller whatever the lookup returned
AfterLookupAlwaysReturn(hit) == "sess_done"

\* AfterLookup that creates a new session whatever the lookup returned
AfterLookupAlwaysCreate(hit) == "sess_mfa"

\* getSessionToken, lines 190-196: a lookup that succeeds returns the cached
\* session, any lookup error goes on to createSessionToken
AfterLookup(hit) == IF hit THEN "sess_done" ELSE "sess_mfa"

\* AfterCreate without the error check of lines 194-196: the result is stored unchecked
AfterCreateStoreUnchecked(forced, e) ==
    IF forced THEN "sess_done" ELSE "sess_store"

\* getSessionToken, lines 186-201, after createSessionToken returned (session, e):
\* the forced branch returns it as it is; the lookup-miss branch returns on an
\* error and stores the session otherwise
AfterCreate(forced, e) ==
    IF forced THEN "sess_done"
    ELSE IF e # "" THEN "sess_done"
    ELSE "sess_store"

\* getCredsWithSession, lines 82-84, and getCredsWithSessionAndRole, lines 102-104:
\* the error Retrieve returns when getSessionToken returned the error e
SessionErrResult(e) == ""

\* credentials.Expiry.IsExpired at the instant now
IsExpired(exp, now) == now >= exp

\* KeyringSessions.Store: the entry for the key is overwritten
StoreEntry(cache, k, tok) == [cache EXCEPT ![k] = tok]

\* KeyringSessions.Retrieve: the entry for the key, if any
LookupEntry(cache, k) == cache[k]

----------------------------------------------------------------------------
Init ==
    /\ config \in Configs
    /\ forceSessionRefresh = FALSE
    /\ masterExpired = FALSE
    /\ expiration = 0
    /\ sessions \in {c \in [Keys -> {NoCred} \cup UNION {CachedAtStart(k) : k \in Keys}] :
                        \A k \in Keys : c[k] \in {NoCred} \cup CachedAtStart(k)}
    /\ pc = "idle"
    /\ session = NoCred
    /\ err = ""
    /\ viaForce = FALSE
    /\ tokenCode = ""
    /\ issued = 0
    /\ call = NoCall
    /\ prev = NoCall
    /\ forcedSince = FALSE
    /\ hist = [pending |-> FALSE, assumed |-> {}]

\* what leaves the provider's own state alone
Locals == <<session, err, viaForce, tokenCode>>

\* Retrieve returns (value, e); cred is the STS credential the value was copied from
Returned(c, value, e, cred) == [c EXCEPT !.value = value, !.reterr = e, !.cred = cred]

\* ForceRefresh that also deletes the cached session of the key
ForceRefreshDropsSession ==
    /\ pc = "idle"
    /\ masterExpired' = TRUE
    /\ forceSessionRefresh' = TRUE
    /\ forcedSince' = TRUE
    /\ hist' = [hist EXCEPT !.pending = TRUE]
    /\ sessions' = StoreEntry(sessions, SessionKey(config), NoCred)
    /\ UNCHANGED <<config, expiration, pc, session, err, viaForce,
                   tokenCode, issued, call, prev>>

\* ForceRefresh, lines 58-61
ForceRefresh ==
    /\ pc = "idle"
    /\ masterExpired' = TRUE
    /\ forceSessionRefresh' = TRUE
    /\ forcedSince' = TRUE
    /\ hist' = [hist EXCEPT !.pending = TRUE]
    /\ UNCHANGED <<config, expiration, sessions, pc, session, err, viaForce,
                   tokenCode, issued, call, prev>>

\* Retrieve, lines 63-76: dispatch on NoSession and RoleARN
Retrieve ==
    /\ pc = "idle"
    /\ issued + 2 <= MaxIssued
    /\ pc' = Entry(Path(config.NoSession, config.RoleARN))
    /\ prev' = call
    /\ call' = [NoCall EXCEPT !.path = Path(config.NoSession, config.RoleARN),
                              !.forcedBefore = forcedSince,
                              !.force0 = forceSessionRefresh,
                              !.sessions0 = sessions,
                              !.expiration0 = expiration,
                              !.pending0 = hist.pending]
    /\ forcedSince' = FALSE
    /\ session' = NoCred
    /\ err' = ""
    /\ viaForce' = FALSE
    /\ tokenCode' = ""
    /\ UNCHANGED <<config, forceSessionRefresh, masterExpired, expiration,
                   sessions, issued, hist>>

\* Retrieve, line 66: return p.masterCreds.Get()
MasterOnlyGet ==
    /\ pc = "master_get"
    /\ \E ok \in BOOLEAN :
        /\ masterExpired' = (IF ok THEN FALSE ELSE masterExpired)
        /\ call' = Returned([call EXCEPT !.log = Append(@, Ev("master", IF ok THEN "ok" ELSE "err"))],
                            IF ok THEN MasterId ELSE 0,
                            IF ok THEN "" ELSE "MasterGet", NoCred)
    /\ pc' = "idle"
    /\ UNCHANGED <<config, forceSessionRefresh, expiration, sessions, issued,
                   prev, forcedSince, hist>>
    /\ UNCHANGED Locals

\* getCredsWithRole, lines 131-138: the role check, then p.masterCreds.Get()
RoleGet ==
    /\ pc = "role_get"
    /\ IF config.RoleARN = ""
       THEN /\ call' = Returned(call, 0, "NoRole", NoCred)
            /\ pc' = "idle"
            /\ UNCHANGED masterExpired
       ELSE \E ok \in BOOLEAN :
            /\ masterExpired' = (IF ok THEN FALSE ELSE masterExpired)
            /\ IF ok
               THEN /\ call' = [call EXCEPT !.log = Append(@, Ev("master", "ok"))]
                    /\ pc' = "role_mfa"
               ELSE /\ call' = Returned([call EXCEPT !.log = Append(@, Ev("master", "err"))],
                                        0, "MasterGet", NoCred)
                    /\ pc' = "idle"
    /\ UNCHANGED <<config, forceSessionRefresh, expiration, sessions, issued,
                   prev, forcedSince, hist>>
    /\ UNCHANGED Locals

\* assumeRoleFromCreds, lines 241-269: the role check, then the MFA serial and code
RoleMfa ==
    /\ pc = "role_mfa"
    /\ IF config.RoleARN = ""
       THEN /\ call' = Returned(call, 0, "NoRole", NoCred)
            /\ pc' = "idle"
            /\ UNCHANGED tokenCode
       ELSE IF NeedsPrompt(config)
       THEN \E ok \in BOOLEAN :
            IF ok
            THEN /\ tokenCode' = PromptedCode
                 /\ call' = [call EXCEPT !.log = Append(@, Ev("prompt", "ok"))]
                 /\ pc' = "role_assume"
            ELSE /\ tokenCode' = ""
                 /\ call' = Returned([call EXCEPT !.log = Append(@, Ev("prompt", "err"))],
                                     0, "MfaPrompt", NoCred)
                 /\ pc' = "idle"
       ELSE /\ tokenCode' = (IF config.MfaSerial # "" THEN config.MfaToken ELSE "")
            /\ pc' = "role_assume"
            /\ UNCHANGED call
    /\ UNCHANGED <<config, forceSessionRefresh, masterExpired, expiration, sessions,
                   session, err, viaForce, issued, prev, forcedSince, hist>>

\* assumeRoleFromCreds, lines 271-277, and getCredsWithRole, lines 141-152:
\* AssumeRole with the master credentials, then SetExpiration and return
RoleAssume ==
    /\ pc = "role_assume"
    /\ \E ok \in BOOLEAN, e \in Expirations :
        LET role == [id |-> FreshId(issued), exp |-> e]
            sent == [call EXCEPT !.base = MasterId, !.serial = config.MfaSerial,
                                 !.code = tokenCode,
                                 !.aSerial = config.MfaSerial, !.aCode = tokenCode]
        IN  IF ok
            THEN /\ issued' = issued + 1
                 /\ hist' = [hist EXCEPT !.assumed = @ \cup {role.id}]
                 /\ expiration' = TrackExpiration(role)
                 /\ call' = Returned([sent EXCEPT !.log = Append(@, Ev("assume", "ok"))],
                                     role.id, "", role)
            ELSE /\ e = 10
                 /\ call' = Returned([sent EXCEPT !.log = Append(@, Ev("assume", "err"))],
                                     0, "AssumeRole", NoCred)
                 /\ UNCHANGED <<issued, expiration, hist>>
    /\ pc' = "idle"
    /\ UNCHANGED <<config, forceSessionRefresh, masterExpired, sessions, prev,
                   forcedSince>>
    /\ UNCHANGED Locals

\* getSessionToken, lines 186-196: the forced branch, or the cache lookup
GetSessionToken ==
    /\ pc = "sess_get"
    /\ IF forceSessionRefresh
       THEN /\ viaForce' = TRUE
            /\ pc' = "sess_mfa"
            /\ UNCHANGED <<session, call>>
       ELSE \E backend \in BOOLEAN :
            LET entry == LookupEntry(sessions, SessionKey(config))
                res == IF ~backend THEN "err"
                       ELSE IF entry = NoCred THEN "notfound" ELSE "ok"
            IN  /\ viaForce' = FALSE
                /\ session' = (IF res = "ok" THEN entry ELSE NoCred)
                /\ call' = [call EXCEPT !.log = Append(@, Ev("read", res))]
                /\ pc' = AfterLookup(res = "ok")
    /\ UNCHANGED <<config, forceSessionRefresh, masterExpired, expiration, sessions,
                   err, tokenCode, issued, prev, forcedSince, hist>>

\* createSessionToken, lines 158-173: the MFA serial and code
CreateSessionTokenMfa ==
    /\ pc = "sess_mfa"
    /\ IF NeedsPrompt(config)
       THEN \E ok \in BOOLEAN :
            IF ok
            THEN /\ tokenCode' = PromptedCode
                 /\ call' = [call EXCEPT !.log = Append(@, Ev("prompt", "ok"))]
                 /\ pc' = "sess_elevate"
                 /\ UNCHANGED err
            ELSE /\ tokenCode' = ""
                 /\ err' = "MfaPrompt"
                 /\ call' = [call EXCEPT !.log = Append(@, Ev("prompt", "err"))]
                 /\ pc' = "sess_done"
       ELSE /\ tokenCode' = (IF config.MfaSerial # "" THEN config.MfaToken ELSE "")
            /\ pc' = "sess_elevate"
            /\ UNCHANGED <<err, call>>
    /\ UNCHANGED <<config, forceSessionRefresh, masterExpired, expiration, sessions,
                   session, viaForce, issued, prev, forcedSince, hist>>

\* createSessionToken, lines 175-182: GetSessionToken signed with the master
\* credentials; getSessionToken, lines 187 and 193-196, takes its result
CreateSessionTokenCall ==
    /\ pc = "sess_elevate"
    /\ \E ok \in BOOLEAN, e \in Expirations :
        LET tok == [id |-> FreshId(issued), exp |-> e]
            sent == [call EXCEPT !.serial = config.MfaSerial, !.code = tokenCode]
        IN  IF ok
            THEN /\ issued' = issued + 1
                 /\ hist' = [hist EXCEPT !.pending = FALSE]
                 /\ masterExpired' = FALSE
                 /\ session' = tok
                 /\ err' = ""
                 /\ call' = [sent EXCEPT !.log = Append(@, Ev("elevate", "ok")),
                                         !.fresh = tok]
                 /\ pc' = AfterCreate(viaForce, "")
            ELSE /\ e = 10
                 /\ session' = NoCred
                 /\ err' = "GetSessionToken"
                 /\ call' = [sent EXCEPT !.log = Append(@, Ev("elevate", "err"))]
                 /\ pc' = AfterCreate(viaForce, "GetSessionToken")
                 /\ UNCHANGED <<issued, masterExpired, hist>>
    /\ UNCHANGED <<config, forceSessionRefresh, expiration, sessions, viaForce,
                   tokenCode, prev, forcedSince>>

\* getSessionToken, lines 198-204: p.sessions.Store of the new session
SessionsStore ==
    /\ pc = "sess_store"
    /\ \E ok \in BOOLEAN :
        IF ok
        THEN /\ sessions' = StoreEntry(sessions, SessionKey(config), session)
             /\ call' = [call EXCEPT !.log = Append(@, Ev("store", "ok"))]
             /\ UNCHANGED <<session, err>>
        ELSE /\ session' = NoCred
             /\ err' = "Store"
             /\ call' = [call EXCEPT !.log = Append(@, Ev("store", "err"))]
             /\ UNCHANGED sessions
    /\ pc' = "sess_done"
    /\ UNCHANGED <<config, forceSessionRefresh, masterExpired, expiration, viaForce,
                   tokenCode, issued, prev, forcedSince, hist>>

\* getCredsWithSession, lines 81-95, and getCredsWithSessionAndRole, lines 101-104:
\* what the caller of getSessionToken does with (session, err)
SessionReturned ==
    /\ pc = "sess_done"
    /\ IF err # ""
       THEN /\ call' = Returned(call, 0, SessionErrResult(err), NoCred)
            /\ pc' = "idle"
            /\ UNCHANGED expiration
       ELSE IF call.path = "SessionOnly"
       THEN /\ expiration' = ExpirationAfterSession(call.path, session, expiration)
            /\ call' = Returned(call, session.id, "", session)
            /\ pc' = "idle"
       ELSE /\ expiration' = ExpirationAfterSession(call.path, session, expiration)
            /\ pc' = "sr_assume"
            /\ UNCHANGED call
    /\ UNCHANGED <<config, forceSessionRefresh, masterExpired, sessions, issued,
                   prev, forcedSince, hist>>
    /\ UNCHANGED Locals

\* assumeRoleFromSession, lines 218-236, and getCredsWithSessionAndRole, lines
\* 106-124: AssumeRole with the session's keys, then SetExpiration and return
AssumeRoleFromSession ==
    /\ pc = "sr_assume"
    /\ \E ok \in BOOLEAN, e \in Expirations :
        LET role == [id |-> FreshId(issued), exp |-> e]
            mfa == SessionAssumeMfa(config, tokenCode)
            sent == [call EXCEPT !.base = session.id,
                                 !.aSerial = mfa.serial, !.aCode = mfa.code]
        IN  IF ok
            THEN /\ issued' = issued + 1
                 /\ hist' = [hist EXCEPT !.assumed = @ \cup {role.id}]
                 /\ expiration' = TrackExpiration(role)
                 /\ call' = Returned([sent EXCEPT !.log = Append(@, Ev("assume", "ok"))],
                                     role.id, "", role)
            ELSE /\ e = 10
                 /\ call' = Returned([sent EXCEPT !.log = Append(@, Ev("assume", "err"))],
                                     0, "AssumeRole", NoCred)
                 /\ UNCHANGED <<issued, expiration, hist>>
    /\ pc' = "idle"
    /\ UNCHANGED <<config, forceSessionRefresh, masterExpired, sessions, prev,
                   forcedSince>>
    /\ UNCHANGED Locals

Next ==
    \/ ForceRefresh
    \/ Retrieve
    \/ MasterOnlyGet
    \/ RoleGet
    \/ RoleMfa
    \/ RoleAssume
    \/ GetSessionToken
    \/ CreateSessionTokenMfa
    \/ CreateSessionTokenCall
    \/ SessionsStore
    \/ SessionReturned
    \/ AssumeRoleFromSession

Spec == Init /\ [][Next]_vars

\* ForceRefresh, lines 58-61, called from another goroutine while a Retrieve
\* is running: the provider holds no lock (lines 50-56)
ConcurrentForceRefresh ==
    /\ pc # "idle"
    /\ masterExpired' = TRUE
    /\ forceSessionRefresh' = TRUE
    /\ forcedSince' = TRUE
    /\ hist' = [hist EXCEPT !.pending = TRUE]
    /\ UNCHANGED <<config, expiration, sessions, pc, session, err, viaForce,
                   tokenCode, issued, call, prev>>

NextConcurrent ==
    \/ Next
    \/ ConcurrentForceRefresh

\* Retrieve and ForceRefresh called concurrently on one provider
SpecConcurrent == Init /\ [][NextConcurrent]_vars

----------------------------------------------------------------------------
(* Vocabulary of the properties *)

\* a Retrieve has returned and none is running
Done == pc = "idle" /\ call.path # "none"

SessionPaths == {"SessionOnly", "SessionThenRole"}

\* the path the configuration stands for, from the two booleans alone
ConfiguredPath ==
    IF config.NoSession
    THEN (IF config.RoleARN # "" THEN "RoleFromMaster" ELSE "MasterOnly")
    ELSE (IF config.RoleARN # "" THEN "SessionThenRole" ELSE "SessionOnly")

Key == <<config.CredentialsName, config.MfaSerial>>

Elevates(c) == Count(c.log, "elevate")
Assumes(c) == Count(c.log, "assume")
Prompts(c) == Count(c.log, "prompt")
Reads(c) == Count(c.log, "read")

\* the session lookup of the Retrieve found the entry
CacheHit(c) == Has(c.log, "read", "ok")
\* the session lookup of the Retrieve found nothing, or failed
CacheMiss(c) == Has(c.log, "read", "notfound") \/ Has(c.log, "read", "err")

\* the Retrieve reported success to its caller
ReportedOk(c) == c.path # "none" /\ c.reterr = ""

----------------------------------------------------------------------------
(* C1 *)

\* C1: after ForceRefresh, the next Retrieve on a session path makes an elevate
\* call even when the cache holds an entry for the key (unless the MFA prompt
\* failed first), and when the elevate succeeds the cache entry for the key is
\* the freshly obtained token.
C1_ForcedRefreshOverwrites ==
    (Done /\ call.path \in SessionPaths /\ call.forcedBefore) =>
        /\ (~Has(call.log, "prompt", "err") => Elevates(call) = 1)
        /\ (Has(call.log, "elevate", "ok") => sessions[Key] = call.fresh)

(* C2 *)

\* C2: after ForceRefresh and one successful Retrieve on a session path, a
\* further Retrieve with no ForceRefresh in between reads the session cache
\* again and makes no elevate call when the lookup hits.
C2_ForcedFlagCleared ==
    (/\ Done /\ call.path \in SessionPaths
     /\ prev.forcedBefore /\ Has(prev.log, "elevate", "ok") /\ ReportedOk(prev)
     /\ ~call.forcedBefore) =>
        /\ Reads(call) = 1
        /\ (CacheHit(call) => Elevates(call) = 0)

(* C3 *)

\* C3: when the elevate or the assume-role call of a Retrieve fails, Retrieve
\* returns that error, and the failed operation is not invoked again.
C3_NetworkErrorReturned ==
    Done =>
        /\ (Has(call.log, "elevate", "err") =>
                call.reterr = "GetSessionToken" /\ Elevates(call) = 1)
        /\ (Has(call.log, "assume", "err") =>
                call.reterr = "AssumeRole" /\ Assumes(call) = 1)

(* C4 *)

\* C4: a Retrieve invokes exactly the network operations of the path the two
\* booleans stand for: MasterOnly none; RoleFromMaster no elevate and at most
\* one assume-role; SessionOnly at most one elevate and no assume-role;
\* SessionThenRole at most one elevate, then at most one assume-role; never
\* more than two network calls.
C4_PathCalls ==
    call.path # "none" =>
        /\ call.path = ConfiguredPath
        /\ ConfiguredPath = "MasterOnly" => Elevates(call) = 0 /\ Assumes(call) = 0
        /\ ConfiguredPath = "RoleFromMaster" => Elevates(call) = 0 /\ Assumes(call) <= 1
        /\ ConfiguredPath = "SessionOnly" => Elevates(call) <= 1 /\ Assumes(call) = 0
        /\ ConfiguredPath = "SessionThenRole" =>
              /\ Elevates(call) <= 1 /\ Assumes(call) <= 1
              /\ \A i \in At(call.log, "elevate"), j \in At(call.log, "assume") : i < j
        /\ Elevates(call) + Assumes(call) <= 2

\* a SessionThenRole Retrieve that made both calls has returned
C4_Witness ==
    /\ Done /\ ConfiguredPath = "SessionThenRole"
    /\ Has(call.log, "elevate", "ok") /\ Has(call.log, "assume", "ok")

(* C5 *)

\* C5: a Retrieve whose session lookup hit makes no elevate call and no MFA
\* prompt, and uses the cached token whatever its expiration: it is the
\* credential SessionOnly returns and the base of SessionThenRole's assume-role.
C5_CacheHitNoElevate ==
    (call.path \in SessionPaths /\ CacheHit(call)) =>
        /\ Elevates(call) = 0
        /\ Prompts(call) = 0
        /\ session = call.sessions0[Key]
        /\ (Done /\ call.path = "SessionOnly") => call.cred = call.sessions0[Key]
        /\ (Done /\ call.path = "SessionThenRole") => call.base = call.sessions0[Key].id

\* a Retrieve has returned a cached token whose expiration is inside the safety
\* window, on a configuration that would have prompted
C5_Witness ==
    /\ Done /\ call.path = "SessionOnly" /\ CacheHit(call)
    /\ call.cred.exp < DefaultExpirationWindow
    /\ NeedsPrompt(config)

(* C6 *)

\* C6: when the MFA prompt of a Retrieve fails, Retrieve returns an error and no
\* credential, and neither network operation is invoked.
C6_PromptFailureAborts ==
    (Done /\ Has(call.log, "prompt", "err")) =>
        /\ call.reterr # ""
        /\ call.value = 0
        /\ Elevates(call) = 0
        /\ Assumes(call) = 0

(* C7 *)

\* C7: when storing the freshly elevated session in the cache fails, Retrieve
\* returns an error.
C7_StoreFailureSurfaced ==
    (Done /\ Has(call.log, "store", "err")) => call.reterr # ""
(* C8 *)

\* the MFA prompt, the elevate call or the assume-role call of the Retrieve failed
Failed(c) ==
    \/ Has(c.log, "prompt", "err")
    \/ Has(c.log, "elevate", "err")
    \/ Has(c.log, "assume", "err")

\* C8 as stated: a Retrieve in which the MFA prompt, the elevate call or the
\* assume-role call failed leaves the session cache as it was before the call,
\* and a Retrieve that follows a failed one consults the cache again and uses
\* the entry it finds.
C8_FailedRetrieveKeepsCache ==
    /\ (Done /\ Failed(call)) => sessions = call.sessions0
    /\ (Done /\ call.path \in SessionPaths /\ Failed(prev)) =>
          /\ Reads(call) = 1
          /\ CacheHit(call) => session = call.sessions0[Key] /\ Elevates(call) = 0

\* C8 amended: a Retrieve in which the MFA prompt or the elevate call failed
\* leaves the session cache as it was; one in which the assume-role call failed
\* leaves it as it was except that, on SessionThenRole after a lookup miss, the
\* freshly elevated token stored before the assume-role call stays under the
\* key; and a Retrieve that follows a failed one with no forced refresh pending
\* consults the cache again and uses the entry it finds.
C8_FailureKeepsCacheButStoredToken ==
    /\ (Done /\ (Has(call.log, "prompt", "err") \/ Has(call.log, "elevate", "err"))) =>
          sessions = call.sessions0
    /\ (Done /\ Has(call.log, "assume", "err")) =>
          \/ sessions = call.sessions0
          \/ /\ call.path = "SessionThenRole"
             /\ CacheMiss(call)
             /\ Has(call.log, "store", "ok")
             /\ sessions = [call.sessions0 EXCEPT ![Key] = call.fresh]
    /\ (Done /\ call.path \in SessionPaths /\ Failed(prev) /\ ~call.force0) =>
          /\ Reads(call) = 1
          /\ CacheHit(call) => session = call.sessions0[Key] /\ Elevates(call) = 0

\* after a Retrieve whose elevate call failed although the cache held an entry
\* for the key, the next Retrieve has used that entry
C8_Witness ==
    /\ Done /\ call.path \in SessionPaths
    /\ Has(prev.log, "elevate", "err") /\ prev.sessions0[Key] # NoCred
    /\ CacheHit(call) /\ call.sessions0 = prev.sessions0

(* C9 *)

\* C9: on a lookup miss with no forced refresh pending, a Retrieve on a session
\* path that reports success has made exactly one elevate call, has stored the
\* fresh token under the key and has handed on that token (returned on
\* SessionOnly, base of the assume-role call on SessionThenRole); the Retrieve
\* that follows it finds the entry (when the cache backend answers) and makes
\* no elevate call.
C9_MissStoresAndReuses ==
    /\ (Done /\ call.path \in SessionPaths /\ ~call.force0 /\ CacheMiss(call)
             /\ ReportedOk(call)) =>
          /\ Elevates(call) = 1
          /\ call.fresh # NoCred
          /\ sessions[Key] = call.fresh
          /\ call.path = "SessionOnly" => call.cred = call.fresh
          /\ call.path = "SessionThenRole" => call.base = call.fresh.id
    /\ (Done /\ call.path \in SessionPaths /\ ~prev.force0 /\ CacheMiss(prev)
             /\ ReportedOk(prev) /\ ~call.forcedBefore
             /\ ~Has(call.log, "read", "err")) =>
          /\ CacheHit(call)
          /\ Elevates(call) = 0

(* C10 *)

\* C10: a Retrieve that reports success on the RoleFromMaster, SessionOnly or
\* SessionThenRole path has returned an STS credential and has set the tracked
\* expiration to that credential's expiration minus 5 minutes.
C10_ExpirationSetOnSuccess ==
    (Done /\ call.path # "MasterOnly" /\ ReportedOk(call)) =>
        /\ call.cred # NoCred
        /\ call.value = call.cred.id
        /\ expiration = call.cred.exp - 5
(* C11 *)

Stores(c) == Count(c.log, "store")

\* C11: with a literal MFA code configured the MFA prompt is never invoked, on
\* any path and after any sequence of Retrieve and ForceRefresh; the code a
\* network operation carries along with the device serial is the literal one.
C11_LiteralCodeNeverPrompts ==
    config.MfaToken # "" =>
        /\ Prompts(call) = 0 /\ Prompts(prev) = 0
        /\ tokenCode \in {"", config.MfaToken}
        /\ \A c \in {call, prev} :
              /\ c.code \in {"", config.MfaToken}
              /\ c.aCode \in {"", config.MfaToken}
              /\ (c.serial # "" /\ (Elevates(c) > 0 \/ Assumes(c) > 0)) =>
                    c.code = config.MfaToken
              /\ c.aSerial # "" => c.aCode = config.MfaToken

\* with a device and a literal code, a forced Retrieve has made an elevate call
\* carrying the literal code, after an earlier Retrieve
C11_Witness ==
    /\ Done /\ config.MfaToken # "" /\ config.MfaSerial # ""
    /\ call.force0 /\ prev.path # "none"
    /\ Has(call.log, "elevate", "ok") /\ call.code = config.MfaToken

(* C12 *)

\* C12: on RoleFromMaster with a device and no literal code, a Retrieve makes
\* no elevate call and no session-cache read or write, prompts at most once
\* and calls assume-role at most once; it prompts exactly once when the master
\* credentials were obtained, and calls assume-role exactly once when the
\* prompt gave a code, with the master credentials, the device serial and the
\* prompted code.
C12_RoleFromMasterPromptsOnce ==
    (Done /\ config.NoSession /\ config.RoleARN # ""
          /\ config.MfaSerial # "" /\ config.MfaToken = "") =>
        /\ Elevates(call) = 0 /\ Reads(call) = 0 /\ Stores(call) = 0
        /\ sessions = call.sessions0
        /\ Prompts(call) = (IF Has(call.log, "master", "ok") THEN 1 ELSE 0)
        /\ Assumes(call) = (IF Has(call.log, "prompt", "ok") THEN 1 ELSE 0)
        /\ Assumes(call) = 1 =>
              /\ call.base = MasterId
              /\ call.aSerial = config.MfaSerial
              /\ call.aCode = PromptedCode
        /\ (ReportedOk(call) => Prompts(call) = 1 /\ Assumes(call) = 1)

\* a RoleFromMaster Retrieve with a device and no literal code has returned a role credential
C12_Witness ==
    /\ Done /\ call.path = "RoleFromMaster"
    /\ config.MfaSerial # "" /\ config.MfaToken = ""
    /\ Has(call.log, "assume", "ok") /\ call.value = call.cred.id

(* C13 *)

\* C13: on SessionThenRole the assume-role call is made with the keys of the
\* session that cache-or-create gave (the cached entry on a hit, the fresh
\* token after an elevate call), carries no MFA serial and no code, and every
\* MFA prompt of the Retrieve comes before the elevate call, which comes
\* before the assume-role call.
C13_SessionRoleNoMfa ==
    (call.path = "SessionThenRole" /\ ~config.NoSession /\ Assumes(call) > 0) =>
        /\ call.base = session.id
        /\ call.base # 0
        /\ CacheHit(call) => call.base = call.sessions0[Key].id /\ Prompts(call) = 0
        /\ ~CacheHit(call) => call.base = call.fresh.id /\ Has(call.log, "elevate", "ok")
        /\ call.aSerial = "" /\ call.aCode = ""
        /\ \A i \in At(call.log, "prompt") :
              /\ \E j \in At(call.log, "elevate") : i < j
              /\ \A j \in At(call.log, "assume") : i < j

\* with a device configured, a SessionThenRole Retrieve has prompted, elevated and assumed the role
C13_Witness ==
    /\ Done /\ call.path = "SessionThenRole" /\ config.MfaSerial # ""
    /\ Has(call.log, "prompt", "ok") /\ Has(call.log, "assume", "ok")
(* C14 *)

RolePaths == {"RoleFromMaster", "SessionThenRole"}

\* C14: assumed-role credentials are never cached: a Retrieve on a role path
\* that reports success has made one assume-role call and returns the
\* credential that call issued, no cache entry holds a credential AssumeRole
\* issued, and an entry a Retrieve wrote holds the token of its elevate call.
C14_RoleCredsNeverCached ==
    /\ (Done /\ call.path \in RolePaths /\ ReportedOk(call)) =>
          /\ Assumes(call) = 1
          /\ Has(call.log, "assume", "ok")
          /\ call.value = FreshId(issued - 1)
          /\ call.value \in hist.assumed
    /\ \A k \in Keys : sessions[k].id \notin hist.assumed
    /\ \A k \in Keys : (call.path # "none" /\ sessions[k] # call.sessions0[k]) =>
          k = Key /\ sessions[k] = call.fresh /\ Has(call.log, "elevate", "ok")

(* C15 *)

\* C15: on MasterOnly a Retrieve does nothing but p.masterCreds.Get() and
\* returns its result (the master value, or its error); the tracked
\* expiration, the forced-refresh flag and the session cache are as before the
\* call, and there is no MFA prompt.
C15_MasterOnlyVerbatim ==
    (Done /\ config.NoSession /\ config.RoleARN = "") =>
        /\ Len(call.log) = 1
        /\ call.log[1].op = "master"
        /\ Has(call.log, "master", "ok") => call.value = MasterId /\ call.reterr = ""
        /\ Has(call.log, "master", "err") => call.value = 0 /\ call.reterr = "MasterGet"
        /\ Prompts(call) = 0
        /\ expiration = call.expiration0
        /\ sessions = call.sessions0
        /\ ~forcedSince => forceSessionRefresh = call.force0

\* a MasterOnly Retrieve has returned the master value while a forced refresh
\* was set and the cache held an entry for the key
C15_Witness ==
    /\ Done /\ call.path = "MasterOnly" /\ call.value = MasterId
    /\ call.force0 /\ forceSessionRefresh /\ sessions[Key] # NoCred

(* C16 *)

\* C16: once a Retrieve has returned an STS credential with expiration T, the
\* provider is expired at an instant now iff now >= T - 5 minutes: expired at
\* T - 5, not expired at T - 5 - 1.
C16_ExpiredFromWindow ==
    (Done /\ call.cred # NoCred) =>
        /\ \A now \in Times : IsExpired(expiration, now) <=> now >= call.cred.exp - 5
        /\ IsExpired(expiration, call.cred.exp - 5)
        /\ ~IsExpired(expiration, call.cred.exp - 5 - 1)

\* a credential expiring at 20 has been returned: expired from 15 on
C16_Witness ==
    /\ Done /\ call.cred.exp = 20
    /\ IsExpired(expiration, 15) /\ ~IsExpired(expiration, 14)

(* C17 *)

\* C17: a session lookup that fails, with not-found or with a backend error,
\* is a miss: the Retrieve goes on to createSessionToken (the MFA code, then
\* the elevate call) and its result is never the lookup's error.
C17_ReadFailureIsMiss ==
    (call.path \in SessionPaths /\ CacheMiss(call)) =>
        /\ \/ pc \in {"sess_mfa", "sess_elevate"}
           \/ Has(call.log, "prompt", "err")
           \/ Elevates(call) = 1
        /\ err \in {"", "MfaPrompt", "GetSessionToken", "Store"}
        /\ (Has(call.log, "elevate", "ok") /\ pc \notin {"sess_store"}
               /\ ~Has(call.log, "store", "err")) => session = call.fresh

\* the cache backend failed on a lookup of an existing entry and the Retrieve
\* has elevated and returned the fresh token
C17_Witness ==
    /\ Done /\ call.path = "SessionOnly"
    /\ Has(call.log, "read", "err") /\ call.sessions0[Key] # NoCred
    /\ Has(call.log, "elevate", "ok") /\ call.cred = call.fresh
(* C18 *)

\* C18: with Retrieve and ForceRefresh called concurrently, no forced refresh
\* is missed (a Retrieve that began while a forced refresh was owed does not
\* use the cached session) and no ForceRefresh causes a second elevate call
\* (the forced branch is taken only while a forced refresh is owed, that is,
\* ForceRefresh was called and no elevate call has succeeded since).
C18_ForcedRefreshServedOnce ==
    /\ (call.path \in SessionPaths /\ call.pending0) => ~CacheHit(call)
    /\ (pc \in {"sess_mfa", "sess_elevate"} /\ viaForce) => hist.pending

(* C19 *)

\* C19: a ForceRefresh (the only step from idle to idle) sets the master
\* credentials expired and the forced-refresh flag, makes no network call and
\* no prompt, and leaves the session cache and the tracked expiration as they
\* were; a further ForceRefresh before the next Retrieve changes nothing.
C19_ForceRefreshFrame ==
    [][(pc = "idle" /\ pc' = "idle") =>
          /\ masterExpired' /\ forceSessionRefresh'
          /\ sessions' = sessions
          /\ expiration' = expiration
          /\ issued' = issued
          /\ call' = call /\ prev' = prev
          /\ forcedSince => UNCHANGED vars]_vars

\* ForceRefresh has been called after a Retrieve that set the expiration, with
\* an entry for the key in the cache
C19_Witness ==
    /\ pc = "idle" /\ forcedSince /\ call.path # "none"
    /\ forceSessionRefresh /\ masterExpired
    /\ sessions[Key] # NoCred /\ expiration # 0

(* C20 *)

\* C20: unless the Retrieve has returned an STS credential, the tracked
\* expiration is what it was when the Retrieve began: so after a failed
\* prompt, elevate call, cache write, master get or assume-role call; and it
\* differs only once the Retrieve has returned and its last step succeeded.
C20_ExpirationOnlyOnSuccess ==
    call.path # "none" =>
        /\ ~(Done /\ call.cred # NoCred) => expiration = call.expiration0
        /\ (\E op \in {"prompt", "elevate", "store", "master", "assume"} :
                Has(call.log, op, "err")) =>
              expiration = call.expiration0 /\ (Done => call.cred = NoCred)
        /\ expiration # call.expiration0 =>
              Done /\ call.log[Len(call.log)].res = "ok"

\* the assume-role call of a SessionThenRole Retrieve failed after an earlier
\* Retrieve had set the expiration, which is still the tracked one
C20_Witness ==
    /\ Done /\ call.path = "SessionThenRole" /\ Has(call.log, "assume", "err")
    /\ call.expiration0 # 0 /\ expiration = call.expiration0
====
